---- MODULE Spec2Model ----
(***************************************************************************)
(* ltranslate: incremental synchronisation of derived locale documents     *)
(* with a source locale document (src/src/main.rs, src/src/types.rs,       *)
(* src/src/interact.rs).                                                   *)
(***************************************************************************)
EXTENDS Integers, Sequences, FiniteSets, TLC

\* ------------------------------------------------------------------------
\* Values, documents, languages
\* ------------------------------------------------------------------------

\* serde_json::Map is a BTreeMap: keys(), values() and iter() enumerate in
\* this (sorted) key order.
KeySeq == <<"farewell", "greeting">>

Keys == {KeySeq[i] : i \in DOMAIN KeySeq}

\* texts the operator writes into the source document
SourceTexts == {"Bye", "Hello", "Hi there"}

JsonString(s) == <<"String", s>>

\* a JSON value that is not a string
JsonNumber == <<"Number", "1">>

\* Value::as_str is Some exactly for a string value
is_string(v) == v[1] = "String"

as_str(v) == v[2]

SourceValues == {JsonString(s) : s \in SourceTexts} \cup {JsonNumber}

\* LocaleJsonData / LocaleData: a map from key to JSON value
DocsOver(vals) == UNION {[ks -> vals] : ks \in SUBSET Keys}

SourceDocs == DocsOver(SourceValues)

\* the keys of a map in iteration order
keys(data) == SelectSeq(KeySeq, LAMBDA k : k \in DOMAIN data)

\* ------------------------------------------------------------------------
\* Diff engine
\* ------------------------------------------------------------------------

None == [some |-> FALSE]

Some(v) == [some |-> TRUE, value |-> v]

\* the `filter` closure of changed_or_added:
\* original.get(k).map_or(true, |old_v| old_v != v)
changed_or_added_filter_no_absent(original, current, k) ==
    IF k \in DOMAIN original THEN original[k] # current[k] ELSE FALSE

changed_or_added_filter(original, current, k) ==
    IF k \in DOMAIN original THEN original[k] # current[k] ELSE TRUE

diff_changed_or_added(original, current) ==
    [k \in {x \in DOMAIN current : changed_or_added_filter(original, current, x)}
        |-> current[k]]

diff_removed(original, current) ==
    [k \in {x \in DOMAIN original : x \notin DOMAIN current} |-> original[k]]

\* a diff that reports a result also when nothing changed
diff_locales_always_some(original, current) ==
    Some([changed_or_added |-> diff_changed_or_added(original, current),
          removed |-> diff_removed(original, current)])

\* main.rs diff_locales: the full scan, no short-circuit
diff_locales(original, current) ==
    LET changed_or_added == diff_changed_or_added(original, current)
        removed == diff_removed(original, current)
    IN  IF DOMAIN changed_or_added = {} /\ DOMAIN removed = {}
        THEN None
        ELSE Some([changed_or_added |-> changed_or_added, removed |-> removed])

\* types.rs LocaleDataDiff::diff: `original == current` short-circuit first
LocaleDataDiff_diff(original, current) ==
    IF original = current
    THEN None
    ELSE LET changed_or_added == diff_changed_or_added(original, current)
             removed == diff_removed(original, current)
         IN  IF DOMAIN changed_or_added = {} /\ DOMAIN removed = {}
             THEN None
             ELSE Some([changed_or_added |-> changed_or_added, removed |-> removed])

\* ------------------------------------------------------------------------
\* Languages and the provider
\* ------------------------------------------------------------------------

Language(code, name) == [code |-> code, name |-> name]

\* DeepLContext::available_target_langs as the provider lists them
ProviderLanguages == <<Language("DE", "German"), Language("FR", "French")>>

\* BTreeMap<String, PathBuf> iterates in this (sorted) order of codes
CodeSeq == <<"DE", "FR">>

Codes == {CodeSeq[i] : i \in DOMAIN CodeSeq}

Min(S) == CHOOSE x \in S : \A y \in S : x <= y

Max(S) == CHOOSE x \in S : \A y \in S : x >= y

SubSeqs(seq) ==
    {SelectSeq(seq, LAMBDA l : l \in S) : S \in SUBSET {seq[i] : i \in DOMAIN seq}}

\* the outcome of DeepL::translate: an error, or a list of texts
ProviderErr == [is_ok |-> FALSE]

ProviderOk(texts) == [is_ok |-> TRUE, texts |-> texts]

\* the provider's translation of a text into a language; the provider may
\* word the same text differently from one run to the next
translation(text, code, run) == code \o ":" \o text \o "@" \o ToString(run)

\* the provider's responses in one run when it works, resp[code] to the
\* call for that language
provider_ok(texts, run) ==
    [c \in Codes |-> ProviderOk([i \in 1..Len(texts) |-> translation(texts[i], c, run)])]

NoFault == [kind |-> "none"]

\* what may go wrong in one run: the provider fails for a language, or its
\* response is one text short, or a write fails
Faults ==
    {NoFault}
    \cup [kind : {"provider error", "provider count"}, code : Codes]
    \cup [kind : {"create", "write"}, at : 1..(Cardinality(Codes) + 2)]

\* the provider's responses in a run with this fault
provider(texts, run, fault) ==
    [c \in Codes |->
        IF fault.kind = "provider error" /\ fault.code = c
        THEN ProviderErr
        ELSE IF fault.kind = "provider count" /\ fault.code = c /\ texts # <<>>
        THEN ProviderOk(SubSeq(provider_ok(texts, run)[c].texts, 1, Len(texts) - 1))
        ELSE provider_ok(texts, run)[c]]

Ok(v) == [ok |-> TRUE, value |-> v]

Exit(message) == [ok |-> FALSE, message |-> message]

\* ------------------------------------------------------------------------
\* Translation adapter
\* ------------------------------------------------------------------------

all_strings(locale_data) == \A k \in DOMAIN locale_data : is_string(locale_data[k])

\* main.rs get_translated_text / types.rs get_raw_text_data: the values in
\* iteration order (the caller exits on a non-string value, see all_strings)
get_translated_text(locale_data) ==
    [i \in 1..Len(keys(locale_data)) |-> as_str(locale_data[keys(locale_data)[i]])]

\* position of a key in the enumeration of the map's keys
key_index(locale_data, k) ==
    CHOOSE i \in 1..Len(keys(locale_data)) : keys(locale_data)[i] = k

\* a re-zip that pairs a key with the result of the first key holding an
\* equal source value
create_locale_json_by_value(source_locale_data, translated_data) ==
    [k \in DOMAIN source_locale_data |->
        JsonString(translated_data[
            Min({key_index(source_locale_data, x) : x \in
                   {y \in DOMAIN source_locale_data :
                       source_locale_data[y] = source_locale_data[k]}})])]

\* main.rs create_locale_json / the closing map of types.rs translate_data:
\* the i-th key gets the i-th translated text
create_locale_json(source_locale_data, translated_data) ==
    [k \in DOMAIN source_locale_data |->
        JsonString(translated_data[key_index(source_locale_data, k)])]

TranslateFailed ==
    "Failed to translate values. This may be because of a connection issue with DeepL."

CountMismatch ==
    "The number of translated values does not match the number of source values."

NonString == "Encountered non-string value in source locale data."

\* a translate_locale that carries on with the source texts when the
\* provider fails
translate_locale_keep_going(source_locale_data, source_locale_text, response) ==
    IF ~response.is_ok
    THEN Ok(create_locale_json(source_locale_data, source_locale_text))
    ELSE IF Len(response.texts) # Len(source_locale_text)
    THEN Exit(CountMismatch)
    ELSE Ok(create_locale_json(source_locale_data, response.texts))

\* main.rs translate_locale, given the provider's response to the batch
translate_locale(source_locale_data, source_locale_text, response) ==
    IF ~response.is_ok
    THEN Exit(TranslateFailed)
    ELSE IF Len(response.texts) # Len(source_locale_text)
    THEN Exit(CountMismatch)
    ELSE Ok(create_locale_json(source_locale_data, response.texts))

\* a translate_data that pairs the keys with as many texts as it got
translate_data_no_count_check(source_data, source_text, response) ==
    IF ~response.is_ok
    THEN Exit(TranslateFailed)
    ELSE Ok([k \in {x \in DOMAIN source_data :
                      key_index(source_data, x) <= Len(response.texts)} |->
                JsonString(response.texts[key_index(source_data, k)])])

\* types.rs LocaleDocument::translate_data
translate_data(source_data, source_text, response) ==
    IF Cardinality(DOMAIN source_data) # Len(source_text)
    THEN Exit("The number of locale data entries does not match the number of raw text entries.")
    ELSE IF ~response.is_ok
    THEN Exit(TranslateFailed)
    ELSE IF Len(response.texts) # Len(source_text)
    THEN Exit(CountMismatch)
    ELSE Ok(create_locale_json(source_data, response.texts))

\* one entry of the log of provider calls
Call(code, texts, response) ==
    [target_language |-> code, texts |-> texts, response |-> response]

\* main.rs translate_locale_all; resp[code] is the provider's response to
\* the call for that language.  The process exits at the first failure.
translate_locale_all(source_locale_data, target_languages, resp) ==
    IF ~all_strings(source_locale_data)
    THEN [ok |-> FALSE, message |-> NonString, calls |-> <<>>]
    ELSE
    LET source_locale_text == get_translated_text(source_locale_data)
        n == Len(target_languages)
        r(i) == translate_locale(source_locale_data, source_locale_text,
                                 resp[target_languages[i].code])
        failed == {i \in 1..n : ~r(i).ok}
        last == IF failed = {} THEN n ELSE Min(failed)
        calls == [i \in 1..last |->
                    Call(target_languages[i].code, source_locale_text,
                         resp[target_languages[i].code])]
    IN  IF failed # {}
        THEN [ok |-> FALSE, message |-> r(last).message, calls |-> calls]
        ELSE [ok |-> TRUE, calls |-> calls,
              value |-> [c \in {target_languages[i].code : i \in 1..n} |->
                            r(Max({i \in 1..n : target_languages[i].code = c})).value]]

\* ------------------------------------------------------------------------
\* Files
\* ------------------------------------------------------------------------

SOURCE_LOCALE_HISTORY_PATH == "./ltranslate/source-history.json"

MANIFEST_PATH == "./ltranslate/manifest.toml"

\* the path the operator gives for the English locale file
SourcePath == "en.json"

\* the path the operator gives for a language's output file
OutputPath(code) == IF code = "DE" THEN "de.json" ELSE "fr.json"

Paths ==
    {SourcePath, SOURCE_LOCALE_HISTORY_PATH, MANIFEST_PATH} \cup
    {OutputPath(c) : c \in Codes}

\* no file at the path
Absent == [kind |-> "absent"]

\* a file that is not a JSON object (File::create truncated it and the
\* write did not complete, or it was never JSON)
Garbage == [kind |-> "garbage"]

\* a file that exists and that read_to_string cannot read (no permission,
\* not UTF-8)
Unreadable == [kind |-> "unreadable"]

\* serde_json::to_string_pretty of a map
JsonFile(data) == [kind |-> "json", data |-> data]

\* toml::to_string_pretty of a manifest
TomlFile(manifest) == [kind |-> "toml", manifest |-> manifest]

LocaleManifest(source_locale_path, locale_paths) ==
    [source_locale_path |-> source_locale_path, locale_paths |-> locale_paths]

exists(fs, path) == fs[path].kind # "absent"

FailedToOpen == "Failed to open and read locale file."

FailedToParse == "Failed to parse locale file."

\* a parse_locale that takes a missing file for an empty document
parse_locale_absent_empty(fs, locale_path) ==
    IF fs[locale_path].kind = "absent" THEN Ok(<<>>)
    ELSE IF fs[locale_path].kind = "unreadable" THEN Exit(FailedToOpen)
    ELSE IF fs[locale_path].kind # "json" THEN Exit(FailedToParse)
    ELSE Ok(fs[locale_path].data)

\* main.rs parse_locale of the file at a path
parse_locale(fs, locale_path) ==
    IF fs[locale_path].kind \in {"absent", "unreadable"} THEN Exit(FailedToOpen)
    ELSE IF fs[locale_path].kind # "json" THEN Exit(FailedToParse)
    ELSE Ok(fs[locale_path].data)

MissingProject == "Missing project data."

\* main.rs get_existing_manifest; None when the file cannot be read
get_existing_manifest(fs) ==
    IF fs[MANIFEST_PATH].kind \in {"absent", "unreadable"} THEN Ok(None)
    ELSE IF fs[MANIFEST_PATH].kind # "toml" THEN Exit("Failed to parse manifest file.")
    ELSE Ok(Some(fs[MANIFEST_PATH].manifest))

\* LocaleManifest::enabled_languages
enabled_languages(manifest, available_languages) ==
    SelectSeq(available_languages, LAMBDA l : l.code \in DOMAIN manifest.locale_paths)

\* the codes of locale_paths in iteration order
manifest_codes(manifest) ==
    SelectSeq(CodeSeq, LAMBDA c : c \in DOMAIN manifest.locale_paths)

\* main.rs get_existing_locale_data_all: exits at the first file that
\* cannot be read or parsed
get_existing_locale_data_all(fs, manifest_data) ==
    LET codes == manifest_codes(manifest_data)
        p(i) == parse_locale(fs, manifest_data.locale_paths[codes[i]])
        failed == {i \in 1..Len(codes) : ~p(i).ok}
    IN  IF failed # {}
        THEN Exit(p(Min(failed)).message)
        ELSE Ok([c \in DOMAIN manifest_data.locale_paths |->
                    parse_locale(fs, manifest_data.locale_paths[c]).value])

FailedToRemove == "Failed to remove key from locale"

\* a remove_dead_keys that passes over a key a locale does not have
remove_dead_keys_lenient(entries_to_remove, current_locale_data_all) ==
    Ok([c \in DOMAIN current_locale_data_all |->
          [k \in DOMAIN current_locale_data_all[c] \ DOMAIN entries_to_remove
              |-> current_locale_data_all[c][k]]])

\* main.rs remove_dead_keys (types.rs remove_dead_entries per document):
\* every key to remove must be present in every locale
remove_dead_keys(entries_to_remove, current_locale_data_all) ==
    IF \E c \in DOMAIN current_locale_data_all :
         \E k \in DOMAIN entries_to_remove : k \notin DOMAIN current_locale_data_all[c]
    THEN Exit(FailedToRemove)
    ELSE Ok([c \in DOMAIN current_locale_data_all |->
               [k \in DOMAIN current_locale_data_all[c] \ DOMAIN entries_to_remove
                   |-> current_locale_data_all[c][k]]])

\* types.rs LocaleDocument::update_entries: insert or overwrite
update_entries(data, to_update) ==
    [k \in DOMAIN data \cup DOMAIN to_update |->
        IF k \in DOMAIN to_update THEN to_update[k] ELSE data[k]]

\* a merge that replaces the whole document by the translated entries
update_changed_or_added_keys_replace(updated_locale_data_all, working_locale_data_all) ==
    [c \in DOMAIN working_locale_data_all |->
        IF c \in DOMAIN updated_locale_data_all
        THEN updated_locale_data_all[c]
        ELSE working_locale_data_all[c]]

\* main.rs update_changed_or_added_keys (every language of the updated data
\* is in the working data: both come from the manifest)
update_changed_or_added_keys(updated_locale_data_all, working_locale_data_all) ==
    [c \in DOMAIN working_locale_data_all |->
        IF c \in DOMAIN updated_locale_data_all
        THEN update_entries(working_locale_data_all[c], updated_locale_data_all[c])
        ELSE working_locale_data_all[c]]

\* ------------------------------------------------------------------------
\* Writing files
\* ------------------------------------------------------------------------

Write(path, content) == [path |-> path, content |-> content]

\* the write of a plan that fails, if one does: File::create fails (the
\* file is left as it was) or write_all fails after File::create truncated
\* the file
fails(plan, wf) == wf.kind \in {"create", "write"} /\ wf.at \in 1..Len(plan)

FailedToCreate == "Failed to create output file."

FailedToWrite == "Failed to write data to output file."

\* the files after the writes of plan are made in order, up to the failing
\* one; the process exits there
apply_writes(fs, plan, wf) ==
    LET done == IF fails(plan, wf) THEN wf.at - 1 ELSE Len(plan)
    IN  [p \in Paths |->
            IF fails(plan, wf) /\ plan[wf.at].path = p /\ wf.kind = "write"
            THEN Garbage
            ELSE LET js == {j \in 1..done : plan[j].path = p}
                 IN  IF js = {} THEN fs[p] ELSE plan[Max(js)].content]

\* the paths written completely, in order
written(plan, wf) ==
    [j \in 1..(IF fails(plan, wf) THEN wf.at - 1 ELSE Len(plan)) |-> plan[j].path]

FailedToOpenManifest == "Failed to open manifest file."

FailedToWriteManifest == "Failed to write data to manifest file."

WriteFailureMessages ==
    {FailedToCreate, FailedToWrite, FailedToOpenManifest, FailedToWriteManifest}

write_outcome(plan, wf) ==
    IF ~fails(plan, wf) THEN "ok"
    ELSE IF plan[wf.at].path = MANIFEST_PATH
    THEN (IF wf.kind = "create" THEN FailedToOpenManifest ELSE FailedToWriteManifest)
    ELSE (IF wf.kind = "create" THEN FailedToCreate ELSE FailedToWrite)

\* a write_locale_file_all that stops after the first file
write_locale_file_all_first_only(manifest_data, locale_data_all) ==
    [i \in 1..Min({1, Len(manifest_codes(manifest_data))}) |->
        Write(manifest_data.locale_paths[manifest_codes(manifest_data)[i]],
              JsonFile(locale_data_all[manifest_codes(manifest_data)[i]]))]

\* main.rs write_locale_file_all: one write_locale_file per locale_paths
\* entry, in the order of the codes (every code has data: the data of a
\* run is built from the languages of its manifest)
write_locale_file_all(manifest_data, locale_data_all) ==
    [i \in 1..Len(manifest_codes(manifest_data)) |->
        Write(manifest_data.locale_paths[manifest_codes(manifest_data)[i]],
              JsonFile(locale_data_all[manifest_codes(manifest_data)[i]]))]

\* a write_appdata that saves the manifest only
write_appdata_manifest_only(manifest_data, locale_data) ==
    <<Write(MANIFEST_PATH, TomlFile(manifest_data))>>

\* a write_appdata that persists the appdata in the other order
write_appdata_manifest_first(manifest_data, locale_data) ==
    <<Write(MANIFEST_PATH, TomlFile(manifest_data))>> \o
    (IF locale_data.some
     THEN <<Write(SOURCE_LOCALE_HISTORY_PATH, JsonFile(locale_data.value))>>
     ELSE <<>>)

\* main.rs write_appdata: the source history (when given), then the manifest
write_appdata(manifest_data, locale_data) ==
    (IF locale_data.some
     THEN <<Write(SOURCE_LOCALE_HISTORY_PATH, JsonFile(locale_data.value))>>
     ELSE <<>>)
    \o <<Write(MANIFEST_PATH, TomlFile(manifest_data))>>

\* ------------------------------------------------------------------------
\* Runs of the program.  A run ends with the files it leaves, its outcome
\* ("ok", "no changes" or the message it exits with), the provider calls
\* it made and the paths it wrote.
\* ------------------------------------------------------------------------

RunResult(fs, outcome, calls, writes) ==
    [fs |-> fs, outcome |-> outcome, calls |-> calls, writes |-> writes]

\* a write_out that persists the appdata before the locale files
write_out_appdata_first(fs, plan, wf, calls) ==
    LET n == Len(plan)
        reordered == IF n > 2
                     THEN SubSeq(plan, n - 1, n) \o SubSeq(plan, 1, n - 2)
                     ELSE plan
    IN  RunResult(apply_writes(fs, reordered, wf), write_outcome(reordered, wf), calls,
                  written(reordered, wf))

\* the writes of a run, and the exit at the failing one
write_out(fs, plan, wf, calls) ==
    RunResult(apply_writes(fs, plan, wf), write_outcome(plan, wf), calls,
              written(plan, wf))

\* main.rs main, "project update"
project_update(fs, available_languages, resp, wf) ==
    LET manifest == get_existing_manifest(fs)
        history == parse_locale(fs, SOURCE_LOCALE_HISTORY_PATH)
    IN
    IF ~manifest.ok THEN RunResult(fs, manifest.message, <<>>, <<>>)
    ELSE IF ~manifest.value.some THEN RunResult(fs, MissingProject, <<>>, <<>>)
    ELSE IF ~history.ok THEN RunResult(fs, history.message, <<>>, <<>>)
    ELSE
    LET manifest_data == manifest.value.value
        current == parse_locale(fs, manifest_data.source_locale_path)
    IN
    IF ~current.ok THEN RunResult(fs, current.message, <<>>, <<>>)
    ELSE
    LET diff == diff_locales(history.value, current.value)
    IN
    IF ~diff.some THEN RunResult(fs, "no changes", <<>>, <<>>)
    ELSE
    LET enabled_langs == enabled_languages(manifest_data, available_languages)
        current_locale_data_all == get_existing_locale_data_all(fs, manifest_data)
    IN
    IF ~current_locale_data_all.ok
    THEN RunResult(fs, current_locale_data_all.message, <<>>, <<>>)
    ELSE
    LET removed_all == remove_dead_keys(diff.value.removed, current_locale_data_all.value)
    IN
    IF ~removed_all.ok THEN RunResult(fs, removed_all.message, <<>>, <<>>)
    ELSE IF DOMAIN diff.value.changed_or_added = {}
    THEN write_out(fs,
             write_locale_file_all(manifest_data, removed_all.value)
                 \o write_appdata(manifest_data, Some(current.value)),
             wf, <<>>)
    ELSE
    LET translated == translate_locale_all(diff.value.changed_or_added, enabled_langs, resp)
    IN
    IF ~translated.ok THEN RunResult(fs, translated.message, translated.calls, <<>>)
    ELSE write_out(fs,
             write_locale_file_all(manifest_data,
                 update_changed_or_added_keys(translated.value, removed_all.value))
                 \o write_appdata(manifest_data, Some(current.value)),
             wf, translated.calls)

\* main.rs select_output_locale_all: answers[code] is the path the operator
\* gives at the prompt for that language
select_output_locale_all(target_languages, answers) ==
    [c \in {target_languages[i].code : i \in 1..Len(target_languages)} |-> answers[c]]

\* the operator names every language's output file after its code
DefaultAnswers == [c \in Codes |-> OutputPath(c)]

\* main.rs main, "project setup": target_languages are the languages the
\* operator selects, answers the output paths the operator gives
project_setup_at(fs, target_languages, answers, resp, wf) ==
    LET manifest_data ==
            LocaleManifest(SourcePath, select_output_locale_all(target_languages, answers))
        source_locale_data == parse_locale(fs, manifest_data.source_locale_path)
    IN
    IF ~source_locale_data.ok THEN RunResult(fs, source_locale_data.message, <<>>, <<>>)
    ELSE
    LET translated == translate_locale_all(source_locale_data.value, target_languages, resp)
    IN
    IF ~translated.ok THEN RunResult(fs, translated.message, translated.calls, <<>>)
    ELSE write_out(fs,
             write_locale_file_all(manifest_data, translated.value)
                 \o write_appdata(manifest_data, Some(source_locale_data.value)),
             wf, translated.calls)

\* main.rs main, "project setup", with every output file named after its
\* language
project_setup(fs, target_languages, resp, wf) ==
    project_setup_at(fs, target_languages, DefaultAnswers, resp, wf)

\* a diff_languages that reports the added languages only
diff_languages_added_only(original, current) ==
    LET added == SelectSeq(current,
                    LAMBDA curr : ~\E i \in 1..Len(original) : original[i].code = curr.code)
    IN  IF added = <<>>
        THEN None
        ELSE Some([added |-> added, removed |-> <<>>])

\* main.rs diff_languages
diff_languages(original, current) ==
    LET added == SelectSeq(current,
                    LAMBDA curr : ~\E i \in 1..Len(original) : original[i].code = curr.code)
        removed == SelectSeq(original,
                    LAMBDA orig : ~\E i \in 1..Len(current) : current[i].code = orig.code)
    IN  IF added = <<>> /\ removed = <<>>
        THEN None
        ELSE Some([added |-> added, removed |-> removed])

\* types.rs LanguageDiff::diff
LanguageDiff_diff(original, current) ==
    LET added == SelectSeq(current,
                    LAMBDA curr : ~\E i \in 1..Len(original) : original[i].code = curr.code)
        removed == SelectSeq(original,
                    LAMBDA orig : ~\E i \in 1..Len(current) : current[i].code = orig.code)
    IN  IF added = <<>> /\ removed = <<>>
        THEN None
        ELSE Some([added |-> added, removed |-> removed])

\* #[derive(PartialEq)] of Language: the codes and the names are equal
Language_eq(a, b) == a.code = b.code /\ a.name = b.name

\* <[Language]>::contains
contains(languages, l) == \E i \in 1..Len(languages) : Language_eq(languages[i], l)

\* select_target_languages: the defaults of the selector, one per available
\* language
preselected_langs(available_languages, enabled_langs) ==
    [i \in 1..Len(available_languages) |-> contains(enabled_langs, available_languages[i])]

\* DeepLContext::get_target_language_if_available
get_target_language_if_available(available_languages, language_code) ==
    LET found == SelectSeq(available_languages, LAMBDA l : l.code = language_code)
    IN  IF found = <<>> THEN None ELSE Some(found[1])

SelectorError == "Unknown error occurred with language selector."

\* main.rs select_target_language: the selector returns the index the
\* operator picks, or an error (0) when it cannot interact
select_target_language(available_languages, selection) ==
    IF selection = 0 THEN Exit(SelectorError) ELSE Ok(available_languages[selection])

\* main.rs full_translate_interactive up to its confirmation prompt: the
\* target language it goes on with, and whether the selector ran.  The
\* argument of unwrap_or is evaluated before unwrap_or is called.
full_translate_interactive(available_languages, target_language, selection) ==
    LET selected == select_target_language(available_languages, selection)
    IN  [selector_invoked |-> TRUE,
         target_language |->
            IF ~selected.ok THEN selected
            ELSE IF target_language.some
            THEN LET found == get_target_language_if_available(available_languages,
                                                               target_language.value)
                 IN  IF found.some THEN Ok(found.value) ELSE selected
            ELSE selected]

\* main.rs main, "project manage", setting "enabled languages"
project_manage_languages_at(fs, available_languages, new_selected_languages, answers, wf) ==
    LET manifest == get_existing_manifest(fs)
    IN
    IF ~manifest.ok THEN RunResult(fs, manifest.message, <<>>, <<>>)
    ELSE IF ~manifest.value.some THEN RunResult(fs, MissingProject, <<>>, <<>>)
    ELSE
    LET manifest_data == manifest.value.value
        enabled == enabled_languages(manifest_data, available_languages)
        diff == diff_languages(enabled, new_selected_languages)
        removed == IF diff.some
                   THEN {diff.value.removed[i].code : i \in 1..Len(diff.value.removed)}
                   ELSE {}
        added == IF diff.some
                 THEN {diff.value.added[i].code : i \in 1..Len(diff.value.added)}
                 ELSE {}
        locale_paths ==
            [c \in (DOMAIN manifest_data.locale_paths \ removed) \cup added |->
                IF c \in added THEN answers[c] ELSE manifest_data.locale_paths[c]]
    IN  write_out(fs,
            write_appdata(LocaleManifest(manifest_data.source_locale_path, locale_paths),
                          None),
            wf, <<>>)

\* main.rs main, "project manage", setting "enabled languages", with every
\* output file named after its language
project_manage_languages(fs, available_languages, new_selected_languages, wf) ==
    project_manage_languages_at(fs, available_languages, new_selected_languages,
                                DefaultAnswers, wf)

\* main.rs main, "project manage", setting "source locale path"
project_manage_source(fs, source_locale_path, wf) ==
    LET manifest == get_existing_manifest(fs)
    IN
    IF ~manifest.ok THEN RunResult(fs, manifest.message, <<>>, <<>>)
    ELSE IF ~manifest.value.some THEN RunResult(fs, MissingProject, <<>>, <<>>)
    ELSE write_out(fs,
            write_appdata(LocaleManifest(source_locale_path,
                                         manifest.value.value.locale_paths),
                          None),
            wf, <<>>)

\* ------------------------------------------------------------------------
\* The per-document operations of types.rs
\* ------------------------------------------------------------------------

\* types.rs LocaleDocument::parse_data_from_file: None when the file cannot
\* be read
parse_data_from_file(file) ==
    IF file.kind \in {"absent", "unreadable"} THEN Ok(None)
    ELSE IF file.kind # "json" THEN Exit(FailedToParse)
    ELSE Ok(Some(file.data))

MissingLocalePath == "Missing locale path for language in manifest."

LocaleDocument(data, language, path) == [data |-> data, language |-> language, path |-> path]

\* types.rs LocaleDocument::from_language
from_language(fs, manifest_data, language) ==
    IF language.code \notin DOMAIN manifest_data.locale_paths
    THEN Exit(MissingLocalePath)
    ELSE
    LET path == manifest_data.locale_paths[language.code]
        data == parse_data_from_file(fs[path])
    IN  IF ~data.ok THEN Exit(data.message)
        ELSE IF ~data.value.some THEN Ok(None)
        ELSE Ok(Some(LocaleDocument(data.value.value, language, path)))

\* types.rs LocaleDocuments::get_existing: the documents of the manifest's
\* languages, without those from_language returns None for
LocaleDocuments_get_existing(fs, manifest_data, languages) ==
    LET d(i) == from_language(fs, manifest_data, languages[i])
        failed == {i \in 1..Len(languages) : ~d(i).ok}
        found == SelectSeq([i \in 1..Len(languages) |-> d(i)], LAMBDA r : r.value.some)
    IN  IF failed # {}
        THEN Exit(d(Min(failed)).message)
        ELSE Ok([i \in 1..Len(found) |-> found[i].value.value])

\* types.rs LocaleDocument::remove_dead_entries
remove_dead_entries(data, to_remove) ==
    IF \E k \in DOMAIN to_remove : k \notin DOMAIN data
    THEN Exit(FailedToRemove)
    ELSE Ok([k \in DOMAIN data \ DOMAIN to_remove |-> data[k]])

MissingSource == "Missing source locale or source locale history file."

DocumentResult(data, outcome, log) == [data |-> data, outcome |-> outcome, calls |-> log]

\* types.rs LocaleDocument::update_translations of a document with this
\* data and language, given the source history file, the source file and
\* the provider's response to the call it makes
update_translations(data, code, history_file, source_file, response) ==
    LET source_document_history == parse_data_from_file(history_file)
        source_document_current == parse_data_from_file(source_file)
    IN
    IF ~source_document_history.ok
    THEN DocumentResult(data, source_document_history.message, <<>>)
    ELSE IF ~source_document_current.ok
    THEN DocumentResult(data, source_document_current.message, <<>>)
    ELSE IF ~source_document_history.value.some \/ ~source_document_current.value.some
    THEN DocumentResult(data, MissingSource, <<>>)
    ELSE
    LET diff == LocaleDataDiff_diff(source_document_history.value.value,
                                    source_document_current.value.value)
    IN
    IF ~diff.some THEN DocumentResult(data, "no changes", <<>>)
    ELSE IF ~all_strings(diff.value.changed_or_added)
    THEN DocumentResult(data, NonString, <<>>)
    ELSE
    LET changed_or_added_text == get_translated_text(diff.value.changed_or_added)
        translated_data ==
            translate_data(diff.value.changed_or_added, changed_or_added_text, response)
        log == <<Call(code, changed_or_added_text, response)>>
    IN
    IF ~translated_data.ok THEN DocumentResult(data, translated_data.message, log)
    ELSE
    LET removed == remove_dead_entries(data, diff.value.removed)
    IN
    IF ~removed.ok THEN DocumentResult(data, removed.message, log)
    ELSE DocumentResult(update_entries(removed.value, translated_data.value), "ok", log)

\* ------------------------------------------------------------------------
\* State
\* ------------------------------------------------------------------------

VARIABLES
    fs,                     \* the files: path -> content
    available_target_langs, \* the provider's list of target languages
    op,                     \* the last operation
    outcome,                \* how the last run ended
    calls,                  \* the provider calls of the last run
    writes,                 \* the paths the last run wrote, in order
    before,                 \* the files at the start of the last run if it
                            \* failed, the files now otherwise
    prior,                  \* the operation before the last, and its outcome
    steps,                  \* the number of operations so far
    faults,                 \* the number of runs a provider or write failure ended
    input,                  \* the arguments of a function applied on its own
    output                  \* what it returned

vars ==
    <<fs, available_target_langs, op, outcome, calls, writes, before, prior,
      steps, faults, input, output>>

\* the number of operations explored
MaxSteps == 4

\* the number of provider and write failures explored
MaxFaults == 1

\* the operator's English locale file before the project is set up
InitialSources ==
    {[k \in Keys |-> IF k = "greeting" THEN JsonString("Hello") ELSE JsonString("Bye")],
     [k \in {"greeting"} |-> JsonString("Hello")]}

\* a directory with the operator's English locale file and no project yet
InitProject ==
    /\ \E data \in InitialSources :
          fs = [p \in Paths |-> IF p = SourcePath THEN JsonFile(data) ELSE Absent]
    /\ available_target_langs = ProviderLanguages
    /\ op = "none"
    /\ outcome = "ok"
    /\ calls = <<>>
    /\ writes = <<>>
    /\ before = fs
    /\ prior = [op |-> "none", outcome |-> "ok"]
    /\ steps = 0
    /\ faults = 0

NotApplied == [applied |-> FALSE]

Init ==
    /\ InitProject
    /\ input = [fn |-> "none"]
    /\ output = NotApplied

Succeeded(o) == o \in {"ok", "no changes"}

\* the exits a failure of the provider or of a write causes
FaultMessages == {TranslateFailed, CountMismatch} \cup WriteFailureMessages

Run(name, r) ==
    /\ steps < MaxSteps
    /\ r.outcome \in FaultMessages => faults < MaxFaults
    /\ steps' = steps + 1
    /\ faults' = IF r.outcome \in FaultMessages THEN faults + 1 ELSE faults
    /\ op' = name
    /\ fs' = r.fs
    /\ outcome' = r.outcome
    /\ calls' = r.calls
    /\ writes' = r.writes
    /\ before' = IF Succeeded(r.outcome) THEN r.fs ELSE fs
    /\ prior' = [op |-> op, outcome |-> outcome]
    /\ UNCHANGED <<available_target_langs, input, output>>

\* the texts of the batch a run submits for this data (none when the run
\* exits before it translates)
batch(data) ==
    IF data.ok /\ all_strings(data.value) THEN get_translated_text(data.value) ELSE <<>>

\* the documents the operator may make of the English locale file
EditedSources ==
    {d \in DocsOver({JsonString(t) : t \in SourceTexts}) :
        /\ "farewell" \in DOMAIN d => d["farewell"] = JsonString("Bye")
        /\ "greeting" \in DOMAIN d => d["greeting"] # JsonString("Bye")}

\* the operator edits the English locale file between two runs
EditSource ==
    \E doc \in EditedSources :
        /\ fs[SourcePath] # JsonFile(doc)
        /\ op # "edit"
        /\ steps < MaxSteps
        /\ steps' = steps + 1
        /\ fs' = [fs EXCEPT ![SourcePath] = JsonFile(doc)]
        /\ op' = "edit"
        /\ outcome' = "ok"
        /\ calls' = <<>>
        /\ writes' = <<>>
        /\ before' = fs'
        /\ prior' = [op |-> op, outcome |-> outcome]
        /\ UNCHANGED <<available_target_langs, faults, input, output>>

\* ltranslate project setup.  select_source_locale only returns a path that
\* exists, select_output_locale only one that does not.
Setup ==
    \E target_languages \in SubSeqs(available_target_langs), fault \in Faults :
        /\ exists(fs, SourcePath)
        /\ \A i \in 1..Len(target_languages) :
              ~exists(fs, OutputPath(target_languages[i].code))
        /\ Run("setup",
               project_setup(fs, target_languages,
                   provider(batch(parse_locale(fs, SourcePath)), steps + 1, fault),
                   fault))

\* the batch of an update run: the changed or added entries
update_batch(f) ==
    LET source_locale_path ==
            IF f[MANIFEST_PATH].kind = "toml"
            THEN f[MANIFEST_PATH].manifest.source_locale_path
            ELSE SourcePath
    IN  IF /\ parse_locale(f, SOURCE_LOCALE_HISTORY_PATH).ok
           /\ parse_locale(f, source_locale_path).ok
        THEN Ok(diff_changed_or_added(parse_locale(f, SOURCE_LOCALE_HISTORY_PATH).value,
                                      parse_locale(f, source_locale_path).value))
        ELSE Exit(FailedToOpen)

\* ltranslate project update
Update ==
    \E fault \in Faults :
        Run("update",
            project_update(fs, available_target_langs,
                provider(batch(update_batch(fs)), steps + 1, fault), fault))

\* ltranslate project manage, "enabled languages"
ManageLanguages ==
    \E new_selected_languages \in SubSeqs(available_target_langs),
       wf \in {f \in Faults : f.kind \in {"none", "create", "write"}} :
        /\ \A i \in 1..Len(new_selected_languages) :
              new_selected_languages[i].code \in DOMAIN
                  (IF fs[MANIFEST_PATH].kind = "toml"
                   THEN fs[MANIFEST_PATH].manifest.locale_paths
                   ELSE <<>>)
              \/ ~exists(fs, OutputPath(new_selected_languages[i].code))
        /\ Run("manage languages",
               project_manage_languages(fs, available_target_langs,
                                        new_selected_languages, wf))

Next == EditSource \/ Setup \/ Update \/ ManageLanguages

Spec == Init /\ [][Next]_vars

\* ltranslate project manage, "source locale path": select_source_locale
\* returns any path the operator gives at which a file exists
ManageSourcePath ==
    \E source_locale_path \in Paths,
       wf \in {f \in Faults : f.kind \in {"none", "create", "write"}} :
        /\ exists(fs, source_locale_path)
        /\ Run("manage source", project_manage_source(fs, source_locale_path, wf))

NextManage ==
    \/ EditSource
    \/ Setup
    \/ Update
    \/ ManageLanguages
    \/ ManageSourcePath

\* the project with the change of the source locale path among its
\* operations
SpecManage == Init /\ [][NextManage]_vars

\* the answers the operator may give at the prompts of select_output_locale
OutputAnswers == [Codes -> {OutputPath(c) : c \in Codes}]

\* ltranslate project setup, the operator free to give any output path at
\* which no file exists (select_output_locale asks again otherwise)
SetupAt ==
    \E target_languages \in SubSeqs(available_target_langs), answers \in OutputAnswers,
       fault \in Faults :
        /\ exists(fs, SourcePath)
        /\ \A i \in 1..Len(target_languages) :
              ~exists(fs, answers[target_languages[i].code])
        /\ Run("setup",
               project_setup_at(fs, target_languages, answers,
                   provider(batch(parse_locale(fs, SourcePath)), steps + 1, fault),
                   fault))

\* ltranslate project manage, "enabled languages", the operator free to
\* give any output path at which no file exists for an added language
ManageLanguagesAt ==
    \E new_selected_languages \in SubSeqs(available_target_langs),
       answers \in OutputAnswers,
       wf \in {f \in Faults : f.kind \in {"none", "create", "write"}} :
        /\ \A i \in 1..Len(new_selected_languages) :
              new_selected_languages[i].code \in DOMAIN
                  (IF fs[MANIFEST_PATH].kind = "toml"
                   THEN fs[MANIFEST_PATH].manifest.locale_paths
                   ELSE <<>>)
              \/ ~exists(fs, answers[new_selected_languages[i].code])
        /\ Run("manage languages",
               project_manage_languages_at(fs, available_target_langs,
                                           new_selected_languages, answers, wf))

NextPaths ==
    \/ SetupAt
    \/ ManageLanguagesAt

\* setup and the changes of the enabled languages with the output paths the
\* operator's to choose
SpecPaths == Init /\ [][NextPaths]_vars

\* connect_deepl fetches the provider's list of target languages at the
\* start of every run: the list may differ from one run to the next
ProviderListChanges ==
    \E languages \in SubSeqs(ProviderLanguages) :
        /\ languages # available_target_langs
        /\ op # "provider list"
        /\ steps < MaxSteps
        /\ steps' = steps + 1
        /\ available_target_langs' = languages
        /\ op' = "provider list"
        /\ outcome' = "ok"
        /\ calls' = <<>>
        /\ writes' = <<>>
        /\ before' = fs
        /\ prior' = [op |-> op, outcome |-> outcome]
        /\ UNCHANGED <<fs, faults, input, output>>

NextProvider ==
    \/ EditSource
    \/ Setup
    \/ Update
    \/ ProviderListChanges

\* setup, edits of the source and update cycles under a provider whose
\* list of target languages changes
SpecProvider == Init /\ [][NextProvider]_vars

\* ------------------------------------------------------------------------
\* The diff engine, the translation adapter and the per-document update of
\* types.rs applied on their own to every input of a bounded set
\* ------------------------------------------------------------------------

\* the texts of the provider's answers
AnswerTexts == {"x", "y"}

\* the longest answer of the provider
MaxAnswer == 2

Answers ==
    {ProviderErr} \cup
    {ProviderOk(r) : r \in UNION {[1..n -> AnswerTexts] : n \in 0..MaxAnswer}}

StringDocs == DocsOver({JsonString(t) : t \in SourceTexts})

DiffInputs == [fn : {"diff"}, original : SourceDocs, current : SourceDocs]

TranslateInputs == [fn : {"translate"}, document : StringDocs, response : Answers]

\* the files a document update may find at the source history path and at
\* the source path
SourceFiles == {Absent} \cup {JsonFile(d) : d \in EditedSources}

UpdateInputs ==
    [fn : {"update_translations"},
     data : DocsOver({JsonString("DE:old")}),
     history : SourceFiles,
     source : SourceFiles,
     response : {ProviderErr, ProviderOk(<<>>), ProviderOk(<<"x">>), ProviderOk(<<"x", "y">>)}]

\* the files a load may find at a path
ParseInputs ==
    [fn : {"parse"},
     file : {Absent, Unreadable, Garbage} \cup {JsonFile(d) : d \in SourceDocs}]

\* the files an update cycle may find at the source history path and at the
\* source path
UpdateSourceFiles ==
    SourceFiles \cup {Garbage, JsonFile([k \in {"greeting"} |-> JsonNumber])}

\* the files an update cycle may find at the path of a derived document
DerivedFiles ==
    {Absent, Garbage, JsonFile([k \in {"greeting"} |-> JsonNumber])}
    \cup {JsonFile(d) : d \in DocsOver({JsonString("old")})}

\* the directories of a project of two languages an update cycle may run in
ProjectFiles ==
    {[p \in Paths |->
        IF p = MANIFEST_PATH
        THEN TomlFile(LocaleManifest(SourcePath, [c \in Codes |-> OutputPath(c)]))
        ELSE IF p = SOURCE_LOCALE_HISTORY_PATH THEN h
        ELSE IF p = SourcePath THEN s
        ELSE IF p = OutputPath("DE") THEN d
        ELSE f] :
     h \in UpdateSourceFiles, s \in UpdateSourceFiles, d \in DerivedFiles,
     f \in {Absent, JsonFile([k \in Keys |-> JsonString("old")]),
            JsonFile([k \in {"greeting"} |-> JsonString("old")])}}

ProjectUpdateInputs == [fn : {"project_update"}, fs : ProjectFiles, fault : Faults]

GetExistingInputs == [fn : {"get_existing"}, fs : ProjectFiles]

\* the display names a language may carry (the provider's list and the
\* manifest of types.rs each store a name)
LanguageNames == {"German", "Deutsch", "French"}

\* the lists of at most one language per code
LanguageLists ==
    {<<>>}
    \cup {<<Language(c, n)>> : c \in Codes, n \in LanguageNames}
    \cup {l \in {<<Language(c, n), Language(d, m)>> :
                    c \in Codes, d \in Codes, n \in LanguageNames, m \in LanguageNames} :
            l[1].code # l[2].code}

LanguageInputs == [fn : {"languages"}, original : LanguageLists, current : LanguageLists]

\* the --language option of the translate subcommand, the provider's list
\* and what the operator picks if the selector runs
TranslateCommandInputs ==
    {[fn |-> "translate command", available |-> a, language |-> l, selection |-> n] :
        a \in SubSeqs(ProviderLanguages) \ {<<>>},
        l \in {None} \cup {Some(c) : c \in Codes \cup {"XX"}},
        n \in 0..Len(ProviderLanguages)}

InitFunctions ==
    /\ InitProject
    /\ input \in DiffInputs \cup TranslateInputs \cup UpdateInputs \cup ParseInputs
                 \cup ProjectUpdateInputs \cup GetExistingInputs
                 \cup LanguageInputs \cup TranslateCommandInputs
    /\ output = NotApplied

Apply(fn, result) ==
    /\ input.fn = fn
    /\ ~output.applied
    /\ output' = result
    /\ UNCHANGED <<fs, available_target_langs, op, outcome, calls, writes, before,
                   prior, steps, faults, input>>

\* both versions of the diff
ApplyDiff ==
    Apply("diff",
          [applied |-> TRUE,
           main |-> diff_locales(input.original, input.current),
           types |-> LocaleDataDiff_diff(input.original, input.current)])

\* both versions of the adapter
ApplyTranslate ==
    Apply("translate",
          [applied |-> TRUE,
           main |-> translate_locale(input.document,
                                     get_translated_text(input.document), input.response),
           types |-> translate_data(input.document,
                                    get_translated_text(input.document), input.response)])

ApplyUpdateTranslations ==
    Apply("update_translations",
          [applied |-> TRUE,
           result |-> update_translations(input.data, "DE", input.history,
                                          input.source, input.response)])

\* both versions of the load of a locale file
ApplyParse ==
    Apply("parse",
          [applied |-> TRUE,
           main |-> parse_locale([p \in {SourcePath} |-> input.file], SourcePath),
           types |-> parse_data_from_file(input.file)])

\* a whole update cycle of main.rs in a given directory
ApplyProjectUpdate ==
    Apply("project_update",
          [applied |-> TRUE,
           result |-> project_update(input.fs, ProviderLanguages,
                          provider(batch(update_batch(input.fs)), 1, input.fault),
                          input.fault)])

\* the load of the derived documents of types.rs in a given directory
ApplyGetExisting ==
    Apply("get_existing",
          [applied |-> TRUE,
           documents |->
               LocaleDocuments_get_existing(input.fs, input.fs[MANIFEST_PATH].manifest,
                   enabled_languages(input.fs[MANIFEST_PATH].manifest, ProviderLanguages))])

\* both versions of the language diff, and the pre-selection of the
\* selector for the current list given the original list as enabled
ApplyLanguages ==
    Apply("languages",
          [applied |-> TRUE,
           main |-> diff_languages(input.original, input.current),
           types |-> LanguageDiff_diff(input.original, input.current),
           preselected |-> preselected_langs(input.current, input.original)])

\* the choice of the target language of the translate subcommand
ApplyTranslateCommand ==
    /\ input.fn = "translate command"
    /\ input.selection <= Len(input.available)
    /\ Apply("translate command",
             [applied |-> TRUE,
              result |-> full_translate_interactive(input.available, input.language,
                                                    input.selection)])

NextFunctions ==
    \/ ApplyLanguages
    \/ ApplyTranslateCommand
    \/ ApplyDiff
    \/ ApplyTranslate
    \/ ApplyUpdateTranslations
    \/ ApplyParse
    \/ ApplyProjectUpdate
    \/ ApplyGetExisting

SpecFunctions == InitFunctions /\ [][NextFunctions]_vars

\* C1: both versions of the diff return the same result; it is None exactly
\* when the two documents are equal as maps, and otherwise its
\* changed_or_added holds the entries of current whose key original lacks or
\* maps to another value, and its removed the entries of original whose key
\* current lacks.
C1_DiffCorrect ==
    (output.applied /\ input.fn = "diff") =>
        LET A == input.original
            B == input.current
        IN  /\ output.types = output.main
            /\ ~output.main.some <=> A = B
            /\ output.main.some =>
                 /\ output.main.value.changed_or_added =
                       [k \in {x \in DOMAIN B : x \notin DOMAIN A \/ A[x] # B[x]} |-> B[k]]
                 /\ output.main.value.removed =
                       [k \in {x \in DOMAIN A : x \notin DOMAIN B} |-> A[k]]

\* a diff with an added key, a removed key and nothing else
C1_Witness ==
    /\ output.applied
    /\ input.fn = "diff"
    /\ output.types.some
    /\ DOMAIN output.types.value.changed_or_added = {"greeting"}
    /\ DOMAIN output.types.value.removed = {"farewell"}
    /\ "greeting" \notin DOMAIN input.original

\* C9: for a response as long as the document, both versions of the adapter
\* return a map with the document's keys in which the i-th key in iteration
\* order holds the i-th text of the response, also when keys hold equal
\* source values.
C9_BatchFidelity ==
    (/\ output.applied /\ input.fn = "translate"
     /\ input.response.is_ok
     /\ Len(input.response.texts) = Cardinality(DOMAIN input.document)) =>
        /\ output.main.ok
        /\ output.types = output.main
        /\ DOMAIN output.main.value = DOMAIN input.document
        /\ \A i \in 1..Len(keys(input.document)) :
              output.main.value[keys(input.document)[i]] =
                  JsonString(input.response.texts[i])

\* two keys with equal source values have received different texts
C9_Witness ==
    /\ output.applied
    /\ input.fn = "translate"
    /\ DOMAIN input.document = Keys
    /\ input.document["farewell"] = input.document["greeting"]
    /\ output.main.ok
    /\ output.main.value["farewell"] # output.main.value["greeting"]

\* C3 as claimed, of the per-document update of types.rs: it calls the
\* provider once, with the values of the changed or added entries, when there
\* are any, and not at all when the diff only removes keys.
C3_OneBatchPerLanguage ==
    (/\ output.applied /\ input.fn = "update_translations"
     /\ input.history.kind = "json" /\ input.source.kind = "json"
     /\ diff_locales(input.history.data, input.source.data).some) =>
        LET changed_or_added ==
                diff_locales(input.history.data, input.source.data).value.changed_or_added
        IN  IF changed_or_added = <<>>
            THEN output.result.calls = <<>>
            ELSE /\ Len(output.result.calls) = 1
                 /\ output.result.calls[1].texts = get_translated_text(changed_or_added)

\* ------------------------------------------------------------------------
\* Properties of the update cycle
\* ------------------------------------------------------------------------

\* the diff an update run on these files computes
run_diff(f) ==
    diff_locales(f[SOURCE_LOCALE_HISTORY_PATH].data,
                 f[f[MANIFEST_PATH].manifest.source_locale_path].data)

\* the texts the provider returned for a language in the logged calls
returned(log, code) ==
    log[CHOOSE i \in 1..Len(log) : log[i].target_language = code].response.texts

UpdateSucceeded == op = "update" /\ outcome = "ok"

C4_IdempotentResync ==
    [][(op = "update" /\ Succeeded(outcome) /\ op' = "update") =>
        /\ outcome' = "no changes"
        /\ calls' = <<>>
        /\ writes' = <<>>
        /\ fs' = fs]_vars

\* the second of two update cycles in a row, the first of which translated
\* and wrote
C4_Witness ==
    /\ prior = [op |-> "update", outcome |-> "ok"]
    /\ op = "update"
    /\ outcome = "no changes"
    /\ fs[MANIFEST_PATH].kind = "toml"
    /\ fs[MANIFEST_PATH].manifest.locale_paths # <<>>

\* C5: after every successfully completed setup or update cycle the source
\* history file holds the content of the source document, and the diff of
\* the two is empty.
C5_SnapshotIsSource ==
    (op \in {"setup", "update"} /\ Succeeded(outcome)) =>
        /\ fs[SOURCE_LOCALE_HISTORY_PATH].kind = "json"
        /\ fs[SOURCE_LOCALE_HISTORY_PATH] = fs[fs[MANIFEST_PATH].manifest.source_locale_path]
        /\ ~run_diff(fs).some

\* an update cycle has written a new snapshot
C5_Witness ==
    /\ UpdateSucceeded
    /\ \E i \in 1..Len(writes) : writes[i] = SOURCE_LOCALE_HISTORY_PATH
    /\ fs[SOURCE_LOCALE_HISTORY_PATH] = fs[SourcePath]
    /\ fs[SOURCE_LOCALE_HISTORY_PATH].data # <<>>

\* the files a failure-free update cycle makes of the files f
failure_free_update(f, run) ==
    project_update(f, available_target_langs,
                   provider_ok(batch(update_batch(f)), run), NoFault).fs

\* C6: an update cycle in which the provider fails for a language exits
\* with the source history file (and every other file) as it was, and an
\* update cycle retried without failure completes with the files a
\* failure-free update cycle makes of the files from before the failure.
C6_NoPartialSnapshotAdvance ==
    [][/\ (op' = "update" /\ \E i \in 1..Len(calls') : ~calls'[i].response.is_ok) =>
            /\ outcome' = TranslateFailed
            /\ fs' = fs
       /\ (/\ op = "update" /\ outcome = TranslateFailed
           /\ op' = "update" /\ outcome' \notin FaultMessages) =>
            /\ outcome' = "ok"
            /\ fs' = failure_free_update(before, steps')]_vars

\* an update cycle retried after the provider failed for the second of two
\* languages has completed
C6_Witness ==
    /\ prior = [op |-> "update", outcome |-> TranslateFailed]
    /\ UpdateSucceeded
    /\ Len(calls) = 2
    /\ faults = 1

\* C7 as claimed: when the write of a derived document fails (at
\* File::create) in an update cycle after an earlier document was written,
\* the source history file and the manifest are as before, and the
\* update cycle retried without failure completes with the files a
\* failure-free update cycle makes of the files from before the failure.
C7_RetryAfterWriteFailure ==
    [][(/\ op = "update" /\ outcome = FailedToCreate
        /\ writes # <<>>
        /\ Len(writes) < Cardinality(DOMAIN before[MANIFEST_PATH].manifest.locale_paths)
        /\ op' = "update" /\ outcome' \notin FaultMessages) =>
            /\ fs[SOURCE_LOCALE_HISTORY_PATH] = before[SOURCE_LOCALE_HISTORY_PATH]
            /\ fs[MANIFEST_PATH] = before[MANIFEST_PATH]
            /\ outcome' = "ok"
            /\ fs' = failure_free_update(before, steps')]_vars

\* C8 as claimed: a setup or update run that fails leaves every file with
\* the content it had before the run.
C8_FailureLeavesFilesUntouched ==
    [][(op' \in {"setup", "update"} /\ ~Succeeded(outcome')) => fs' = fs]_vars

\* the paths a setup or update run writes, in order, given the languages of
\* its manifest: the derived documents, the source history, the manifest
write_order(codes) ==
    [i \in 1..Len(SelectSeq(CodeSeq, LAMBDA c : c \in codes)) |->
        OutputPath(SelectSeq(CodeSeq, LAMBDA c : c \in codes)[i])]
    \o <<SOURCE_LOCALE_HISTORY_PATH, MANIFEST_PATH>>

\* the languages of the manifest of the run that led to the primed state
run_codes(o, f, log) ==
    IF o = "update"
    THEN DOMAIN f[MANIFEST_PATH].manifest.locale_paths
    ELSE {log[i].target_language : i \in 1..Len(log)}

\* C8 amended: a setup or update run that fails before its first write
\* leaves every file as it was; one that fails at a write leaves every file
\* that comes after the failing one in the order of the writes as it was.
C8_FailureLeavesLaterFilesUntouched ==
    [][(op' \in {"setup", "update"} /\ ~Succeeded(outcome')) =>
        IF outcome' \notin WriteFailureMessages
        THEN fs' = fs
        ELSE LET order == write_order(run_codes(op', fs, calls'))
             IN  /\ \A i \in 1..Len(writes') : writes'[i] = order[i]
                 /\ \A p \in Paths :
                       p \notin {order[i] : i \in 1..(Len(writes') + 1)} => fs'[p] = fs[p]]_vars

\* an update cycle has failed at the write of its second derived document,
\* the first one rewritten
C8_Witness ==
    /\ op = "update"
    /\ outcome \in {FailedToCreate, FailedToWrite}
    /\ writes = <<OutputPath("DE")>>
    /\ fs[OutputPath("DE")] # before[OutputPath("DE")]
    /\ fs[SOURCE_LOCALE_HISTORY_PATH] = before[SOURCE_LOCALE_HISTORY_PATH]

\* the source document differs from the source history
PendingDiff(f) ==
    /\ f[SOURCE_LOCALE_HISTORY_PATH].kind = "json"
    /\ f[MANIFEST_PATH].kind = "toml"
    /\ f[f[MANIFEST_PATH].manifest.source_locale_path].kind = "json"
    /\ run_diff(f).some

\* C10 as claimed: a change of the enabled languages attempted while the
\* source document differs from the source history leaves every file as it
\* was.
C10_LanguageSetGuard ==
    [][(op' = "manage languages" /\ PendingDiff(fs)) => fs' = fs]_vars

\* ------------------------------------------------------------------------
\* Properties of the language-set change and of setup
\* ------------------------------------------------------------------------

\* the languages of the manifest in these files
manifest_paths(f) == f[MANIFEST_PATH].manifest.locale_paths

\* C11 as claimed: after a change of the enabled languages made while no
\* diff is pending, every language of the manifest has an existing derived
\* file (a language just added has a freshly translated one).
C11_AddedLanguageHasDocument ==
    [][(op' = "manage languages" /\ outcome' = "ok" /\ ~PendingDiff(fs)) =>
        \A c \in DOMAIN manifest_paths(fs') : exists(fs', manifest_paths(fs')[c])]_vars

\* the codes of a selection of languages
selected_codes(languages) == {languages[i].code : i \in 1..Len(languages)}

\* C12: a change of the enabled languages that deselects a language drops
\* its entry from the manifest and writes the manifest only: the file of
\* the removed language, the source history and the documents of the other
\* languages keep their content, and the entries of the languages kept keep
\* their paths.
C12_RemovedLanguageOnlyDropsEntry ==
    fs[MANIFEST_PATH].kind = "toml" =>
        \A selection \in SubSeqs(available_target_langs) :
            LET r == project_manage_languages(fs, available_target_langs, selection, NoFault)
                old == manifest_paths(fs)
                removed == DOMAIN old \ selected_codes(selection)
            IN  /\ r.outcome = "ok"
                /\ r.writes = <<MANIFEST_PATH>>
                /\ \A p \in Paths \ {MANIFEST_PATH} : r.fs[p] = fs[p]
                /\ r.fs[MANIFEST_PATH].kind = "toml"
                /\ r.fs[MANIFEST_PATH].manifest.source_locale_path =
                      fs[MANIFEST_PATH].manifest.source_locale_path
                /\ \A c \in removed : c \notin DOMAIN manifest_paths(r.fs)
                /\ \A c \in DOMAIN old \ removed :
                      /\ c \in DOMAIN manifest_paths(r.fs)
                      /\ manifest_paths(r.fs)[c] = old[c]

\* a change of the enabled languages has removed a language whose derived
\* file is still there, next to a language that was kept
C12_Witness ==
    /\ op = "manage languages"
    /\ outcome = "ok"
    /\ writes = <<MANIFEST_PATH>>
    /\ \E c, d \in Codes :
          /\ c \notin DOMAIN manifest_paths(fs)
          /\ fs[OutputPath(c)].kind = "json"
          /\ d \in DOMAIN manifest_paths(fs)
          /\ fs[OutputPath(d)].kind = "json"

\* C13: a setup that completes has written, for every selected language, a
\* derived document at its manifest path with the keys of the source
\* document, every key set to the text the provider returned at the key's
\* position, and then the source document as the source history and the
\* manifest; in a setup that reaches the source history or the manifest,
\* every derived document was written before.
C13_SetupWritesDerivedThenAppdata ==
    [][(op' = "setup" /\ (outcome' = "ok" \/ outcome' \in WriteFailureMessages)) =>
        LET source == fs[SourcePath].data
            L == run_codes("setup", fs, calls')
        IN  /\ outcome' = "ok" =>
                 /\ fs'[MANIFEST_PATH].kind = "toml"
                 /\ DOMAIN manifest_paths(fs') = L
                 /\ fs'[MANIFEST_PATH].manifest.source_locale_path = SourcePath
                 /\ fs'[SOURCE_LOCALE_HISTORY_PATH] = JsonFile(source)
                 /\ \A c \in L :
                       LET new == fs'[manifest_paths(fs')[c]]
                       IN  /\ new.kind = "json"
                           /\ DOMAIN new.data = DOMAIN source
                           /\ \A k \in DOMAIN source :
                                 new.data[k] =
                                   JsonString(returned(calls', c)[key_index(source, k)])
            /\ (\/ fs'[SOURCE_LOCALE_HISTORY_PATH] # fs[SOURCE_LOCALE_HISTORY_PATH]
                \/ fs'[MANIFEST_PATH] # fs[MANIFEST_PATH]) =>
                 \A c \in L : \E i \in 1..Len(writes') : writes'[i] = OutputPath(c)
            /\ fs'[MANIFEST_PATH] # fs[MANIFEST_PATH] =>
                 fs'[SOURCE_LOCALE_HISTORY_PATH] = JsonFile(source)]_vars

\* a setup for two languages of a source document of two keys has completed
C13_Witness ==
    /\ op = "setup"
    /\ outcome = "ok"
    /\ Len(calls) = 2
    /\ DOMAIN manifest_paths(fs) = Codes
    /\ Cardinality(DOMAIN fs[SourcePath].data) = 2
    /\ writes = write_order(Codes)

\* ------------------------------------------------------------------------
\* Properties of the failures of the update cycle and of the load
\* ------------------------------------------------------------------------

\* an update cycle of main.rs has run in the directory of the input
UpdateApplied == output.applied /\ input.fn = "project_update"

\* that update cycle wrote nothing and left every file as it was
NothingWritten ==
    /\ output.result.writes = <<>>
    /\ output.result.fs = input.fs

\* C14: an update cycle started without the source history file or without
\* the source document file exits with an error, calls the provider zero
\* times and writes no file (main.rs: at the parse_locale of the missing
\* file or of an unparsable file read before it; types.rs
\* update_translations: with the document as it was).
C14_AbsentSourceIsFatal ==
    /\ (/\ UpdateApplied
        /\ \/ input.fs[SOURCE_LOCALE_HISTORY_PATH] = Absent
           \/ input.fs[SourcePath] = Absent) =>
            /\ output.result.outcome \in {FailedToOpen, FailedToParse}
            /\ output.result.calls = <<>>
            /\ NothingWritten
    /\ (/\ output.applied /\ input.fn = "update_translations"
        /\ input.history = Absent \/ input.source = Absent) =>
            /\ output.result.outcome = MissingSource
            /\ output.result.calls = <<>>
            /\ output.result.data = input.data

\* an update cycle has exited in a project whose source history is missing
\* while the source document and the derived documents are there
C14_Witness ==
    /\ UpdateApplied
    /\ input.fs[SOURCE_LOCALE_HISTORY_PATH] = Absent
    /\ input.fs[SourcePath].kind = "json"
    /\ input.fs[SourcePath].data # <<>>
    /\ input.fs[OutputPath("DE")].kind = "json"
    /\ input.fs[OutputPath("FR")].kind = "json"
    /\ input.fault = NoFault
    /\ ~Succeeded(output.result.outcome)

\* the update cycle of the input has loaded the source history and the
\* source document and found a diff
UpdateFoundDiff ==
    /\ UpdateApplied
    /\ input.fs[SOURCE_LOCALE_HISTORY_PATH].kind = "json"
    /\ input.fs[SourcePath].kind = "json"
    /\ run_diff(input.fs).some

\* C15 as claimed: an update cycle with a diff in a project whose manifest
\* lists a language without a derived file exits with an error and writes
\* nothing, and the load of the derived documents (types.rs
\* LocaleDocuments::get_existing) does not return without that language.
C15_MissingDerivedIsFatal ==
    /\ (UpdateFoundDiff /\ \E c \in Codes : input.fs[OutputPath(c)] = Absent) =>
            /\ ~Succeeded(output.result.outcome)
            /\ NothingWritten
    /\ (/\ output.applied /\ input.fn = "get_existing"
        /\ \E c \in Codes : input.fs[OutputPath(c)] = Absent) =>
            ~output.documents.ok

\* C16: an update cycle whose diff removes a key that some derived document
\* does not have exits with an error without writing a file (main.rs:
\* before any provider call; types.rs update_translations: with the
\* document as it was).
C16_MissingRemovedKeyIsFatal ==
    /\ (/\ UpdateFoundDiff
        /\ \A c \in Codes : input.fs[OutputPath(c)].kind = "json"
        /\ \E c \in Codes : \E k \in DOMAIN run_diff(input.fs).value.removed :
               k \notin DOMAIN input.fs[OutputPath(c)].data) =>
            /\ output.result.outcome = FailedToRemove
            /\ output.result.calls = <<>>
            /\ NothingWritten
    /\ (/\ output.applied /\ input.fn = "update_translations"
        /\ input.history.kind = "json" /\ input.source.kind = "json"
        /\ \E k \in DOMAIN input.history.data :
               k \notin DOMAIN input.source.data /\ k \notin DOMAIN input.data) =>
            /\ ~Succeeded(output.result.outcome)
            /\ output.result.data = input.data

\* an update cycle has exited at the removal of a key one derived document
\* has and the other lacks
C16_Witness ==
    /\ UpdateFoundDiff
    /\ input.fault = NoFault
    /\ output.result.outcome = FailedToRemove
    /\ input.fs[OutputPath("DE")].kind = "json"
    /\ input.fs[OutputPath("FR")].kind = "json"
    /\ \E k \in DOMAIN run_diff(input.fs).value.removed :
          /\ k \in DOMAIN input.fs[OutputPath("DE")].data
          /\ k \notin DOMAIN input.fs[OutputPath("FR")].data

\* a logged call whose answer has another length than its batch
mismatched(call) ==
    call.response.is_ok /\ Len(call.response.texts) # Len(call.texts)

\* C17: when the provider answers a batch with a list of another length,
\* both versions of the adapter exit with the count error instead of
\* returning a mapping, and the update cycle in which it happens writes no
\* file.
C17_CountMismatchIsFatal ==
    /\ (/\ output.applied /\ input.fn = "translate"
        /\ input.response.is_ok
        /\ Len(input.response.texts) # Cardinality(DOMAIN input.document)) =>
            /\ output.main = Exit(CountMismatch)
            /\ output.types = Exit(CountMismatch)
    /\ (/\ UpdateApplied
        /\ \E i \in 1..Len(output.result.calls) : mismatched(output.result.calls[i])) =>
            /\ output.result.outcome = CountMismatch
            /\ NothingWritten

\* an update cycle has exited at the second language's answer, one text
\* short, after the first language's answer was complete
C17_Witness ==
    /\ UpdateApplied
    /\ Len(output.result.calls) = 2
    /\ ~mismatched(output.result.calls[1])
    /\ mismatched(output.result.calls[2])
    /\ output.result.outcome = CountMismatch

\* a load has been applied to the file of the input
ParseApplied == output.applied /\ input.fn = "parse"

\* the file is a JSON object of string values
flat_string_map(file) == file.kind = "json" /\ all_strings(file.data)

\* C18 as claimed: the load of a path without a file returns the absent
\* outcome and no error; the load of a file that is a flat string map
\* returns its document; the load of a file that exists and cannot be read,
\* or is not a flat string map, is an error (both versions of the load).
C18_LoadOutcomes ==
    ParseApplied =>
        /\ input.file = Absent =>
              /\ output.types = Ok(None)
              /\ output.main.ok
        /\ flat_string_map(input.file) =>
              /\ output.types = Ok(Some(input.file.data))
              /\ output.main = Ok(input.file.data)
        /\ (input.file # Absent /\ ~flat_string_map(input.file)) =>
              /\ ~output.types.ok
              /\ ~output.main.ok

\* the files the update cycle of the input wrote completely
written_files ==
    {output.result.fs[output.result.writes[i]] : i \in 1..Len(output.result.writes)}

\* C19 as claimed: the load of a locale file with a value that is not a
\* string is an error (both versions of the load), and no file an update
\* cycle writes holds a value that is not a string.
C19_NonStringIsFatalAtLoad ==
    /\ (ParseApplied /\ input.file.kind = "json" /\ ~all_strings(input.file.data)) =>
            /\ ~output.main.ok
            /\ ~output.types.ok
    /\ UpdateApplied =>
            \A file \in written_files : file.kind = "json" => all_strings(file.data)

\* ------------------------------------------------------------------------
\* Properties of the source locale path
\* ------------------------------------------------------------------------

\* the path the manifest names as the source document when a run starts
\* on these files (a setup names the operator's English locale file)
source_path(name, f) ==
    IF name # "setup" /\ f[MANIFEST_PATH].kind = "toml"
    THEN f[MANIFEST_PATH].manifest.source_locale_path
    ELSE SourcePath

\* C20 as claimed: no setup, update, change of the source path or change
\* of the enabled languages writes the file the manifest names as the
\* source document: the file has the same content after the run, and its
\* path is not among the paths written.
C20_SourceNeverWritten ==
    [][(op' \in {"setup", "update", "manage source", "manage languages"}) =>
        /\ fs'[source_path(op', fs)] = fs[source_path(op', fs)]
        /\ \A i \in 1..Len(writes') : writes'[i] # source_path(op', fs)]_vars

\* ------------------------------------------------------------------------
\* Properties of the languages
\* ------------------------------------------------------------------------

\* C21 as claimed: both versions of the language diff report as added the
\* current languages whose code no original language has, as removed the
\* original languages whose code no current language has, and None exactly
\* when the two lists have the same codes; and the selector pre-selects a
\* language exactly when an enabled language has its code, whatever the
\* names.
C21_LanguageIdentityByCode ==
    (output.applied /\ input.fn = "languages") =>
        LET A == input.original
            B == input.current
        IN  /\ output.types = output.main
            /\ ~output.main.some <=> selected_codes(A) = selected_codes(B)
            /\ output.main.some =>
                 /\ output.main.value.added =
                       SelectSeq(B, LAMBDA l : l.code \notin selected_codes(A))
                 /\ output.main.value.removed =
                       SelectSeq(A, LAMBDA l : l.code \notin selected_codes(B))
            /\ \A i \in 1..Len(B) :
                 output.preselected[i] <=> B[i].code \in selected_codes(A)

\* C22 as claimed: when the translate subcommand is given --language with a
\* code the provider lists, that language is used and the selector does
\* not run.
C22_LanguageOptionSkipsSelector ==
    (/\ output.applied /\ input.fn = "translate command"
     /\ input.language.some
     /\ input.language.value \in selected_codes(input.available)) =>
        /\ ~output.result.selector_invoked
        /\ output.result.target_language.ok
        /\ output.result.target_language.value.code = input.language.value

\* ------------------------------------------------------------------------
\* Properties of the order of the writes
\* ------------------------------------------------------------------------

\* a run has reached its writes
reached_writes(o, w) == w # <<>> \/ o \in WriteFailureMessages

\* C23: a setup or update run reaches its first write only after the
\* provider has answered, with a list of the right length, the call for
\* every language it translates for (an update with changed or added
\* entries: every language of the manifest); it writes the derived
\* documents, then the source history, then the manifest; and the source
\* history is changed only after every derived document was written.
C23_WritesAfterTranslationInOrder ==
    [][(op' \in {"setup", "update"} /\ reached_writes(outcome', writes')) =>
        LET codes == run_codes(op', fs, calls')
            order == write_order(codes)
        IN  /\ \A i \in 1..Len(calls') :
                  calls'[i].response.is_ok /\ ~mismatched(calls'[i])
            /\ (op' = "update" /\ DOMAIN run_diff(fs).value.changed_or_added # {}) =>
                  {calls'[i].target_language : i \in 1..Len(calls')} = codes
            /\ Len(writes') <= Len(order)
            /\ \A i \in 1..Len(writes') : writes'[i] = order[i]
            /\ fs'[SOURCE_LOCALE_HISTORY_PATH] # fs[SOURCE_LOCALE_HISTORY_PATH] =>
                  \A c \in codes : \E i \in 1..Len(writes') : writes'[i] = OutputPath(c)]_vars

\* an update cycle has translated for two languages and written the two
\* derived documents, the source history and the manifest
C23_Witness ==
    /\ UpdateSucceeded
    /\ Len(calls) = 2
    /\ writes = write_order(Codes)
    /\ fs[OutputPath("DE")].kind = "json"
    /\ fs[OutputPath("FR")].kind = "json"

\* ------------------------------------------------------------------------
\* Properties of the manifest
\* ------------------------------------------------------------------------

\* every language of the manifest has a derived document with the keys of
\* the source history
DerivedMatchSnapshot(f) ==
    /\ f[SOURCE_LOCALE_HISTORY_PATH].kind = "json"
    /\ \A c \in DOMAIN manifest_paths(f) :
          /\ f[manifest_paths(f)[c]].kind = "json"
          /\ DOMAIN f[manifest_paths(f)[c]].data = DOMAIN f[SOURCE_LOCALE_HISTORY_PATH].data

\* C24 as claimed: in a project that was set up and has since seen only
\* edits of the source and update cycles that no provider or write failure
\* ended, every language of the manifest has a derived document whose keys
\* are the keys of the source history, whatever the provider's list of
\* target languages was at each update.
C24_DerivedKeysMatchSnapshot ==
    (faults = 0 /\ fs[MANIFEST_PATH].kind = "toml") => DerivedMatchSnapshot(fs)

\* C25 as claimed: in the manifest that setup and the changes of the
\* enabled languages leave, no two languages have the same output path.
C25_DistinctOutputPaths ==
    fs[MANIFEST_PATH].kind = "toml" =>
        \A c, d \in DOMAIN manifest_paths(fs) :
            c # d => manifest_paths(fs)[c] # manifest_paths(fs)[d]

====
